---- MODULE Spec2Model ----
(***************************************************************************)
(* A model of troubleshoot.py, the interactive troubleshooting wizard of   *)
(* the ERPNext deployment: the menu loop, the health check, the database   *)
(* diagnosis and the three fixes, together with the part of the world the  *)
(* wizard acts on (the containers' status output, site_config.json, the    *)
(* database role, the asset directories and the host staging directory).   *)
(*                                                                         *)
(* Text is modelled as a sequence of one-character strings, so that        *)
(* json.loads, json.dumps, str.replace, str.strip and the substring test   *)
(* are computed character by character, as the code computes them.         *)
(***************************************************************************)
EXTENDS Integers, Sequences, FiniteSets, TLC

VARIABLES
    pc,            \* where the session is: the menu prompt, a step of an operation, ...
    op,            \* the menu choice being served
    log,           \* commands issued and prompts answered while serving it, in order
    printed,       \* the messages printed while serving it
    anyFailed,     \* some command of the operation exited non-zero
    ret,           \* the value the operation's function returned
    probed,        \* check_general_health: the report lines (service, status) so far
    all_up,        \* check_general_health: local all_up
    config,        \* fix_db_permissions: local config (the decoded site config)
    target_pass,   \* fix_db_permissions: local target_pass
    sync_config,   \* fix_db_permissions: local sync_config
    diag_output,   \* diagnose_db_access: local output (what the connectivity probe gave)
    diag_logs,     \* diagnose_db_access: local logs (what the log tail gave)
    containers,    \* world: what the status query of each service produces
    configFile,    \* world: the text of site_config.json in the backend
    dbUsers,       \* world: the database's roles, each with its password
    staging,       \* world: the host directory asset_sync_temp
    backendAssets, \* world: sites/assets in the backend
    frontA,        \* world: /home/frappe/frappe-bench/sites/assets in the frontend
    frontB,        \* world: /usr/share/nginx/html/assets in the frontend
    lastRun        \* history: the fix last run to its end with every command
                   \* succeeding (its menu choice, its mode, the world it left)

vars == <<pc, op, log, printed, anyFailed, ret, probed, all_up, config,
          target_pass, sync_config, diag_output, diag_logs, containers, configFile,
          dbUsers, staging, backendAssets, frontA, frontB, lastRun>>

opVars == <<probed, all_up, config, target_pass, sync_config, diag_output, diag_logs>>
worldVars == <<containers, configFile, dbUsers, staging, backendAssets, frontA, frontB>>

----------------------------------------------------------------------------
(* Characters and the program's text constants.                            *)

DQ == "\""
BS == "\\"
NL == "\n"
SP == " "

Digits == {"0", "1", "2", "3", "4", "5", "6", "7", "8", "9"}
Whitespace == {" ", "\n", "\t", "\r"}

CONTAINER_BACKEND == "backend"
CONTAINER_DB == "db"

T_State == <<"S", "t", "a", "t", "e">>
T_running == <<"r", "u", "n", "n", "i", "n", "g">>
T_stopped == <<"s", "t", "o", "p", "p", "e", "d">>
T_not_found == <<"n", "o", "t", "_", "f", "o", "u", "n", "d">>
T_unknown == <<"u", "n", "k", "n", "o", "w", "n">>
T_parse_error == <<"p", "a", "r", "s", "e", "_", "e", "r", "r", "o", "r">>
K_db_name == <<"d", "b", "_", "n", "a", "m", "e">>
K_db_password == <<"d", "b", "_", "p", "a", "s", "s", "w", "o", "r", "d">>
DefaultPassword == <<"S", "e", "c", "u", "r", "e", "R", "o", "o", "t", "P", "a", "s", "s",
                     "w", "o", "r", "d", "4", "5", "6", "!">>
T_Connected == <<"C", "o", "n", "n", "e", "c", "t", "e", "d">>
P_AccessDenied == <<"A", "c", "c", "e", "s", "s", " ", "d", "e", "n", "i", "e", "d", " ",
                    "f", "o", "r", " ", "u", "s", "e", "r">>
P_CantConnect == <<"C", "a", "n", "'", "t", " ", "c", "o", "n", "n", "e", "c", "t", " ",
                   "t", "o", " ", "M", "y", "S", "Q", "L">>

----------------------------------------------------------------------------
(* Python values.  A decoded JSON value is a record of one shape:          *)
(*   t  the type: "str", "num", "null", "arr" or "obj";                    *)
(*   s  the characters of a string, the digits of a number;                *)
(*   e  the elements of a list;                                            *)
(*   m  the members of a dict, in insertion order, keys unique.            *)

StrVal(s) == [t |-> "str", s |-> s, e |-> <<>>, m |-> <<>>]
NumVal(s) == [t |-> "num", s |-> s, e |-> <<>>, m |-> <<>>]
NullVal == [t |-> "null", s |-> <<>>, e |-> <<>>, m |-> <<>>]
ArrVal(e) == [t |-> "arr", s |-> <<>>, e |-> e, m |-> <<>>]
ObjVal(m) == [t |-> "obj", s |-> <<>>, e |-> <<>>, m |-> m]

IsStr(v, s) == v.t = "str" /\ v.s = s

\* Python's truth value: None, "", 0, [] and {} are false.
Truthy(v) ==
    CASE v.t = "str" -> v.s # <<>>
      [] v.t = "num" -> \E i \in 1..Len(v.s) : v.s[i] # "0"
      [] v.t = "null" -> FALSE
      [] v.t = "arr" -> v.e # <<>>
      [] v.t = "obj" -> v.m # <<>>

HasKey(m, k) == \E i \in 1..Len(m) : m[i].k = k

\* dict.get(k, default)
DictGet(m, k, default) ==
    IF HasKey(m, k) THEN m[CHOOSE i \in 1..Len(m) : m[i].k = k].v ELSE default

\* d[k] = v: an existing key keeps its place, a new one goes last.
DictSet(m, k, v) ==
    IF HasKey(m, k)
    THEN [i \in 1..Len(m) |-> IF m[i].k = k THEN [k |-> k, v |-> v] ELSE m[i]]
    ELSE Append(m, [k |-> k, v |-> v])

----------------------------------------------------------------------------
(* str methods.                                                            *)

RECURSIVE LStrip(_)
LStrip(t) == IF t # <<>> /\ Head(t) \in Whitespace THEN LStrip(Tail(t)) ELSE t

RECURSIVE RStrip(_)
RStrip(t) ==
    IF t # <<>> /\ t[Len(t)] \in Whitespace THEN RStrip(SubSeq(t, 1, Len(t) - 1)) ELSE t

\* str.strip()
Strip(t) == RStrip(LStrip(t))

\* needle in t
Contains(t, needle) ==
    \E i \in 1..(Len(t) - Len(needle) + 1) : SubSeq(t, i, i + Len(needle) - 1) = needle

\* t.replace(c, by), for a one-character c
RECURSIVE Replace(_, _, _)
Replace(t, c, by) ==
    IF t = <<>> THEN <<>>
    ELSE (IF Head(t) = c THEN by ELSE <<Head(t)>>) \o Replace(Tail(t), c, by)

----------------------------------------------------------------------------
(* json.loads: a recursive-descent decoder over the text.  Each step       *)
(* returns whether it decoded a value, the value, and the index after it.  *)

Fail == [ok |-> FALSE, v |-> NullVal, n |-> 0]
Ok(v, n) == [ok |-> TRUE, v |-> v, n |-> n]

RECURSIVE SkipWs(_, _)
SkipWs(t, i) == IF i <= Len(t) /\ t[i] \in Whitespace THEN SkipWs(t, i + 1) ELSE i

\* The characters of a string literal, from the index after its opening quote.
RECURSIVE ScanString(_, _, _)
ScanString(t, i, acc) ==
    IF i > Len(t) THEN Fail
    ELSE IF t[i] = DQ THEN Ok(StrVal(acc), i + 1)
    ELSE IF t[i] = BS THEN
        IF i + 1 > Len(t) THEN Fail
        ELSE IF t[i + 1] \in {DQ, BS, "/"} THEN ScanString(t, i + 2, Append(acc, t[i + 1]))
        ELSE IF t[i + 1] = "n" THEN ScanString(t, i + 2, Append(acc, NL))
        ELSE Fail
    ELSE IF t[i] \in {"\n", "\t", "\r"} THEN Fail
    ELSE ScanString(t, i + 1, Append(acc, t[i]))

RECURSIVE ScanDigits(_, _)
ScanDigits(t, i) == IF i <= Len(t) /\ t[i] \in Digits THEN ScanDigits(t, i + 1) ELSE i

\* An unsigned integer without a leading zero.
ScanNumber(t, i) ==
    LET n == ScanDigits(t, i) IN
    IF t[i] = "0" /\ n > i + 1 THEN Ok(NumVal(<<"0">>), i + 1)
    ELSE Ok(NumVal(SubSeq(t, i, n - 1)), n)

RECURSIVE ParseValue(_, _)
RECURSIVE ParseArr(_, _, _, _)
RECURSIVE ParseObj(_, _, _, _)

\* The elements of a list, from the index after "[" or after a ",".
ParseArr(t, i, acc, first) ==
    LET j == SkipWs(t, i) IN
    IF j > Len(t) THEN Fail
    ELSE IF first /\ t[j] = "]" THEN Ok(ArrVal(acc), j + 1)
    ELSE LET r == ParseValue(t, j)
             k == SkipWs(t, r.n)
         IN  IF ~r.ok \/ k > Len(t) THEN Fail
             ELSE IF t[k] = "," THEN ParseArr(t, k + 1, Append(acc, r.v), FALSE)
             ELSE IF t[k] = "]" THEN Ok(ArrVal(Append(acc, r.v)), k + 1)
             ELSE Fail

\* The members of a dict, from the index after "{" or after a ",".
ParseObj(t, i, acc, first) ==
    LET j == SkipWs(t, i) IN
    IF j > Len(t) THEN Fail
    ELSE IF first /\ t[j] = "}" THEN Ok(ObjVal(acc), j + 1)
    ELSE IF t[j] # DQ THEN Fail
    ELSE LET key == ScanString(t, j + 1, <<>>)
             c == SkipWs(t, key.n)
             r == ParseValue(t, c + 1)
             k == SkipWs(t, r.n)
         IN  IF ~key.ok \/ c > Len(t) THEN Fail
             ELSE IF t[c] # ":" THEN Fail
             ELSE IF ~r.ok \/ k > Len(t) THEN Fail
             ELSE IF t[k] = "," THEN ParseObj(t, k + 1, DictSet(acc, key.v.s, r.v), FALSE)
             ELSE IF t[k] = "}" THEN Ok(ObjVal(DictSet(acc, key.v.s, r.v)), k + 1)
             ELSE Fail

ParseValue(t, i0) ==
    LET i == SkipWs(t, i0) IN
    IF i > Len(t) THEN Fail
    ELSE IF t[i] = DQ THEN ScanString(t, i + 1, <<>>)
    ELSE IF t[i] = "{" THEN ParseObj(t, i + 1, <<>>, TRUE)
    ELSE IF t[i] = "[" THEN ParseArr(t, i + 1, <<>>, TRUE)
    ELSE IF t[i] \in Digits THEN ScanNumber(t, i)
    ELSE IF i + 3 <= Len(t) /\ SubSeq(t, i, i + 3) = <<"n", "u", "l", "l">>
         THEN Ok(NullVal, i + 4)
    ELSE Fail

\* json.loads(t): one value and nothing but whitespace after it; ok is FALSE where
\* json.loads raises JSONDecodeError.
json_loads(t) ==
    LET r == ParseValue(t, 1) IN
    IF r.ok /\ SkipWs(t, r.n) > Len(t) THEN r ELSE Fail

----------------------------------------------------------------------------
(* json.dumps(v, indent=1).                                                *)

RECURSIVE EscapeString(_)
EscapeString(s) ==
    IF s = <<>> THEN <<>>
    ELSE (CASE Head(s) = DQ -> <<BS, DQ>>
            [] Head(s) = BS -> <<BS, BS>>
            [] Head(s) = NL -> <<BS, "n">>
            [] OTHER -> <<Head(s)>>) \o EscapeString(Tail(s))

Indent(level) == [i \in 1..level |-> SP]

RECURSIVE DumpsValue(_, _)
RECURSIVE DumpsItems(_, _, _, _)

\* The items of a list (asObj false) or a dict, one per line at the given level.
DumpsItems(items, level, asObj, i) ==
    LET item == IF asObj
                THEN <<DQ>> \o EscapeString(items[i].k) \o <<DQ, ":", SP>>
                     \o DumpsValue(items[i].v, level)
                ELSE DumpsValue(items[i], level)
    IN  <<NL>> \o Indent(level) \o item
        \o (IF i < Len(items) THEN <<",">> \o DumpsItems(items, level, asObj, i + 1)
            ELSE <<>>)

DumpsValue(v, level) ==
    CASE v.t = "str" -> <<DQ>> \o EscapeString(v.s) \o <<DQ>>
      [] v.t = "num" -> v.s
      [] v.t = "null" -> <<"n", "u", "l", "l">>
      [] v.t = "arr" ->
            IF v.e = <<>> THEN <<"[", "]">>
            ELSE <<"[">> \o DumpsItems(v.e, level + 1, FALSE, 1)
                 \o <<NL>> \o Indent(level) \o <<"]">>
      [] v.t = "obj" ->
            IF v.m = <<>> THEN <<"{", "}">>
            ELSE <<"{">> \o DumpsItems(v.m, level + 1, TRUE, 1)
                 \o <<NL>> \o Indent(level) \o <<"}">>

json_dumps(v) == DumpsValue(v, 0)

----------------------------------------------------------------------------
(* run_command.  A process is what the spawned command did: its exit       *)
(* status and its standard output.  The result is None or a text;          *)
(* reported says whether "Error running command" was printed.              *)

Proc(exit, out) == [exit |-> exit, out |-> out]

None == [none |-> TRUE, text |-> <<>>]
Some(t) == [none |-> FALSE, text |-> t]

\* "not output": None and the empty text are false.
Falsy(output) == output.none \/ output.text = <<>>

\* subprocess.run(check = not ignore_errors) raises CalledProcessError only when
\* the exit status is non-zero and errors are not ignored; return_output is True
\* at every call of the program.
run_command(proc, ignore_errors) ==
    IF proc.exit # 0 /\ ~ignore_errors
    THEN [result |-> None, reported |-> TRUE]
    ELSE [result |-> Some(Strip(proc.out)), reported |-> FALSE]

\* An entry of the log: a command handed to run_command, or a prompt answered.
Cmd(name, arg) == [kind |-> "cmd", name |-> name, arg |-> arg, text |-> <<>>]
CmdText(name, arg, text) == [kind |-> "cmd", name |-> name, arg |-> arg, text |-> text]
Ask(name, answer) == [kind |-> "ask", name |-> name, arg |-> answer, text |-> <<>>]

Reported(r) == IF r.reported THEN {"Error running command"} ELSE {}

----------------------------------------------------------------------------
(* get_docker_status.                                                      *)

\* The function's outcome: the status it returns, or raised when an exception
\* other than JSONDecodeError leaves it (.get of a value that is no dict).
Returns(v) == [raised |-> FALSE, status |-> v]
Raises == [raised |-> TRUE, status |-> NullVal]

\* get_docker_status with "unknown" for an empty list, as for a record without State.
get_docker_status_EmptyListUnknown(output) ==
    IF Falsy(output) THEN Returns(StrVal(T_not_found))
    ELSE LET data == json_loads(output.text) IN
         IF ~data.ok THEN Returns(StrVal(T_parse_error))
         ELSE IF data.v.t = "arr" THEN
             IF data.v.e = <<>> THEN Returns(StrVal(T_unknown))
             ELSE IF data.v.e[1].t = "obj"
                  THEN Returns(DictGet(data.v.e[1].m, T_State, StrVal(T_unknown)))
                  ELSE Raises
         ELSE IF data.v.t = "obj"
              THEN Returns(DictGet(data.v.m, T_State, StrVal(T_unknown)))
              ELSE Raises

get_docker_status(output) ==
    IF Falsy(output) THEN Returns(StrVal(T_not_found))
    ELSE LET data == json_loads(output.text) IN
         IF ~data.ok THEN Returns(StrVal(T_parse_error))
         ELSE IF data.v.t = "arr" THEN
             IF data.v.e = <<>> THEN Returns(StrVal(T_stopped))
             ELSE IF data.v.e[1].t = "obj"
                  THEN Returns(DictGet(data.v.e[1].m, T_State, StrVal(T_unknown)))
                  ELSE Raises
         ELSE IF data.v.t = "obj"
              THEN Returns(DictGet(data.v.m, T_State, StrVal(T_unknown)))
              ELSE Raises

----------------------------------------------------------------------------
(* The session: menu().                                                    *)

\* What the operator may type at "Enter choice: ".
MenuInputs == {"0", "1", "2", "3", "4", "5", "6", "7", ""}

\* What the operator may type at a (y/n) prompt, and str.lower() of it.
YesNoInputs == {"y", "Y", "n", "N", "", "yes"}
Lower(s) == CASE s = "Y" -> "y" [] s = "N" -> "n" [] OTHER -> s

\* What the operator may type at "Select option: " of fix_db_permissions.
ModeInputs == {"1", "2", "0", "", " 2", "y"}

NoConfig == ObjVal(<<>>)

\* One pass of the loop up to the dispatch: the choice is read and the chosen
\* function is entered (or the loop goes on to "Press Enter to continue").
Menu(choice) ==
    /\ pc = "menu"
    /\ op' = choice
    /\ printed' = IF choice \in {"0", "1", "2", "3", "4", "5", "6"} THEN {}
                  ELSE {"Invalid choice."}
    /\ pc' = CASE choice = "1" -> "check_general_health"
               [] choice = "2" -> "diagnose_db_access"
               [] choice = "3" -> "fix_db_permissions"
               [] choice = "4" -> "fix_assets"
               [] choice = "5" -> "fix_hrms_install"
               [] choice = "6" -> "view_logs"
               [] choice = "0" -> "exited"
               [] OTHER -> "continue"
    /\ UNCHANGED lastRun
    /\ UNCHANGED <<log, anyFailed, ret, opVars, worldVars>>

\* The world but for the containers' status: the stored config, the database's
\* roles and the four asset directories.
World == <<configFile, dbUsers, staging, backendAssets, frontA, frontB>>

NoRun == [op |-> "", mode |-> "", world |-> <<>>]

\* The operation served was a fix that ran to its last command, none failing;
\* for fix_db_permissions, the answer that selected its mode.
RanToEnd ==
    /\ ~anyFailed
    /\ \/ op \in {"4", "5"}
       \/ op = "3" /\ log # <<>> /\ log[Len(log)].name = "restart"

ModeOfRun == IF op = "3" THEN log[2].arg ELSE ""

\* input("Press Enter to continue...") and back to the top of the loop; what the
\* served operation left in its locals is gone.
Continue ==
    /\ pc = "continue"
    /\ pc' = "menu"
    /\ op' = ""
    /\ log' = <<>>
    /\ printed' = {}
    /\ anyFailed' = FALSE
    /\ ret' = "none"
    /\ probed' = <<>>
    /\ all_up' = TRUE
    /\ config' = NoConfig
    /\ target_pass' = <<>>
    /\ sync_config' = FALSE
    /\ diag_output' = None
    /\ diag_logs' = None
    /\ lastRun' = IF RanToEnd THEN [op |-> op, mode |-> ModeOfRun, world |-> World]
                  ELSE NoRun
    /\ UNCHANGED worldVars

----------------------------------------------------------------------------
(* check_general_health.                                                   *)

services == <<"backend", "frontend", "db", "redis-cache", "redis-queue">>

IsRunning(status) == IsStr(status, T_running)

\* f"{status:<15}" is defined for a str and an int; for None, a list or a dict
\* it raises TypeError.
Formattable(status) == status.t \in {"str", "num"}

\* all_up following the last status alone.
AllUpAfter_LastOnly(up, status) == IsRunning(status)

\* "if status != 'running': all_up = False"
AllUpAfter(up, status) == up /\ IsRunning(status)

\* One iteration of "for service in services": the probe, the report line, all_up.
\* An exception leaving get_docker_status or the print leaves menu() as well, and
\* the process ends with a traceback.
HealthProbe ==
    /\ pc = "check_general_health"
    /\ Len(probed) < Len(services)
    /\ LET service == services[Len(probed) + 1]
           r == run_command(containers[service], FALSE)
           got == get_docker_status(r.result)
       IN  /\ log' = Append(log, Cmd("ps", service))
           /\ printed' = printed \cup Reported(r)
           /\ anyFailed' = (anyFailed \/ containers[service].exit # 0)
           /\ IF got.raised \/ ~Formattable(got.status)
              THEN /\ pc' = "crashed"
                   /\ UNCHANGED <<probed, all_up>>
              ELSE /\ pc' = pc
                   /\ probed' = Append(probed, [service |-> service,
                                                status |-> got.status])
                   /\ all_up' = AllUpAfter(all_up, got.status)
    /\ UNCHANGED lastRun
    /\ UNCHANGED <<op, ret, config, target_pass, sync_config, diag_output, diag_logs,
                   worldVars>>

\* After the loop: the verdict.
HealthVerdict ==
    /\ pc = "check_general_health"
    /\ Len(probed) = Len(services)
    /\ ret' = IF all_up THEN "True" ELSE "False"
    /\ printed' = printed \cup (IF all_up THEN {"All essential containers are running."}
                                ELSE {"CRITICAL: Some essential services are not running."})
    /\ pc' = "continue"
    /\ UNCHANGED lastRun
    /\ UNCHANGED <<op, log, anyFailed, opVars, worldVars>>

----------------------------------------------------------------------------
(* diagnose_db_access, and the question menu() asks after it.              *)

\* What the connectivity probe (exec backend python3 -c "... print('Connected')")
\* may do: connect, fail silently, print the marker and still fail, print
\* something else.
ConnectProcs ==
    { Proc(0, T_Connected \o <<NL>>),
      Proc(0, <<"w", NL>> \o T_Connected \o <<NL>>),
      Proc(1, <<>>),
      Proc(1, T_Connected \o <<NL>>),
      Proc(0, <<"o", "k", NL>>) }

\* What "logs --tail 20 backend" may produce.
LogProcs ==
    { Proc(0, P_AccessDenied),
      Proc(0, P_CantConnect),
      Proc(0, P_CantConnect \o <<NL>> \o P_AccessDenied),
      Proc(0, P_AccessDenied \o <<NL>> \o P_CantConnect),
      Proc(1, P_AccessDenied),
      Proc(0, <<"o", "k">>),
      Proc(0, <<>>),
      Proc(1, <<>>) }

\* IsConnected testing the output for being the marker, not for holding it.
IsConnected_WholeOutput(result) == ~Falsy(result) /\ result.text = T_Connected

\* Line 98: output and "Connected" in output
IsConnected(result) == ~Falsy(result) /\ Contains(result.text, T_Connected)

\* Lines 96-100: the probe, and the verdict when its output holds the marker.
DiagnoseProbe ==
    /\ pc = "diagnose_db_access"
    /\ \E proc \in ConnectProcs :
         LET r == run_command(proc, TRUE)
             connected == IsConnected(r.result)
         IN  /\ log' = Append(log, Cmd("connect_probe", CONTAINER_BACKEND))
             /\ printed' = printed \cup Reported(r)
                    \cup (IF connected THEN {"Backend can connect to Database."}
                          ELSE {"Backend CANNOT connect to Database."})
             /\ anyFailed' = (anyFailed \/ proc.exit # 0)
             /\ diag_output' = r.result
             /\ ret' = IF connected THEN "True" ELSE ret
             /\ pc' = IF connected THEN "continue" ELSE "diagnose_db_access.logs"
    /\ UNCHANGED lastRun
    /\ UNCHANGED <<op, probed, all_up, config, target_pass, sync_config, diag_logs,
                   worldVars>>

\* Classify with the two tests of lines 111 and 114 in the other order.
Classify_RefusedFirst(logs) ==
    IF ~Falsy(logs) /\ Contains(logs.text, P_CantConnect) THEN "conn_refused"
    ELSE IF ~Falsy(logs) /\ Contains(logs.text, P_AccessDenied) THEN "access_denied"
    ELSE "unknown_db_error"

\* Lines 110-118: the verdict from the log tail.
Classify(logs) ==
    IF ~Falsy(logs) /\ Contains(logs.text, P_AccessDenied) THEN "access_denied"
    ELSE IF ~Falsy(logs) /\ Contains(logs.text, P_CantConnect) THEN "conn_refused"
    ELSE "unknown_db_error"

\* Lines 108-118, and lines 313-314 of menu(): the question follows only the
\* verdict access_denied.
DiagnoseLogs ==
    /\ pc = "diagnose_db_access.logs"
    /\ \E proc \in LogProcs :
         LET r == run_command(proc, FALSE) IN
         /\ log' = Append(log, Cmd("logs_tail_20", CONTAINER_BACKEND))
         /\ printed' = printed \cup Reported(r)
         /\ anyFailed' = (anyFailed \/ proc.exit # 0)
         /\ diag_logs' = r.result
         /\ ret' = Classify(r.result)
         /\ pc' = IF Classify(r.result) = "access_denied" THEN "menu.fix_now"
                  ELSE "continue"
    /\ UNCHANGED lastRun
    /\ UNCHANGED <<op, probed, all_up, config, target_pass, sync_config, diag_output,
                   worldVars>>

\* Line 314: input(">> Fix Access Denied now? (y/n): ").lower() == 'y'
FixNow(answer) ==
    /\ pc = "menu.fix_now"
    /\ log' = Append(log, Ask("Fix Access Denied now?", answer))
    /\ pc' = IF Lower(answer) = "y" THEN "fix_db_permissions" ELSE "continue"
    /\ UNCHANGED lastRun
    /\ UNCHANGED <<op, printed, anyFailed, ret, opVars, worldVars>>

\* Line 323: print(run_command([... "logs", "--tail", "50", "backend"]))
ViewLogs ==
    /\ pc = "view_logs"
    /\ \E proc \in LogProcs :
         LET r == run_command(proc, FALSE) IN
         /\ log' = Append(log, Cmd("logs_tail_50", CONTAINER_BACKEND))
         /\ printed' = printed \cup Reported(r)
         /\ anyFailed' = (anyFailed \/ proc.exit # 0)
    /\ pc' = "continue"
    /\ UNCHANGED lastRun
    /\ UNCHANGED <<op, ret, opVars, worldVars>>

\* diagnose_assets (lines 120-126) asks before it calls fix_assets; menu() calls
\* fix_assets itself at choice 4 and never diagnose_assets, so no specification
\* below takes this step.
diagnose_assets(choice) ==
    /\ pc = "diagnose_assets"
    /\ log' = Append(log, Ask("Do you want to rebuild assets and fix permissions now?",
                              choice))
    /\ pc' = IF Lower(choice) = "y" THEN "fix_assets" ELSE "continue"
    /\ UNCHANGED lastRun
    /\ UNCHANGED <<op, printed, anyFailed, ret, opVars, worldVars>>

----------------------------------------------------------------------------
(* fix_db_permissions.                                                     *)

\* str(v) of a decoded string or number, as an f-string formats it.
PyStr(v) == v.s

db_name_of(cfg) == DictGet(cfg.m, K_db_name, NullVal)
db_pass_of(cfg) == DictGet(cfg.m, K_db_password, NullVal)

\* ReadOutcome without the check of lines 148-150.
ReadOutcome_NoFieldCheck(config_str) ==
    LET decoded == IF config_str.none THEN Fail ELSE json_loads(config_str.text) IN
    IF config_str.none \/ ~decoded.ok THEN "raised"
    ELSE IF decoded.v.t # "obj" THEN "raised"
    ELSE "usable"

\* Lines 143-150: what json.loads(config_str) and the two .get give: "raised"
\* (TypeError on None, JSONDecodeError, AttributeError on a value that is no
\* dict; all caught at line 206), "unusable" (db_name or db_password false),
\* or "usable".
ReadOutcome(config_str) ==
    LET decoded == IF config_str.none THEN Fail ELSE json_loads(config_str.text) IN
    IF config_str.none \/ ~decoded.ok THEN "raised"
    ELSE IF decoded.v.t # "obj" THEN "raised"
    ELSE IF ~Truthy(db_name_of(decoded.v)) \/ ~Truthy(db_pass_of(decoded.v))
         THEN "unusable"
    ELSE "usable"

\* Lines 140-152: cat site_config.json, decode it, check the two fields.
FixDbRead ==
    /\ pc = "fix_db_permissions"
    /\ \E exit \in {0, 1} :
         LET r == run_command(Proc(exit, IF exit = 0 THEN configFile ELSE <<>>), FALSE)
             outcome == ReadOutcome(r.result)
         IN  /\ log' = Append(log, Cmd("cat_site_config", CONTAINER_BACKEND))
             /\ anyFailed' = (anyFailed \/ exit # 0)
             /\ printed' = printed \cup Reported(r) \cup
                    (CASE outcome = "raised" -> {"Error parsing site config"}
                       [] outcome = "unusable" ->
                            {"Could not parse db_name or db_password from site_config.json"}
                       [] outcome = "usable" -> {"Found DB Name"})
             /\ config' = IF outcome = "usable" THEN json_loads(r.result.text).v
                          ELSE config
             /\ pc' = IF outcome = "usable" THEN "fix_db_permissions.mode"
                      ELSE "continue"
    /\ UNCHANGED lastRun
    /\ UNCHANGED <<op, ret, probed, all_up, target_pass, sync_config, diag_output, diag_logs,
                   worldVars>>

\* ModeOf with the force branch taken on "1" as well.
ModeOf_ForceOnBoth(db_choice) ==
    IF db_choice \in {"1", "2"} THEN "force" ELSE "cancel"

\* ModeOf without the "elif db_choice != '1': return" of lines 167-168.
ModeOf_NoCancel(db_choice) == IF db_choice = "2" THEN "force" ELSE "existing"

\* Lines 161-168: what the answer to "Select option: " selects.
ModeOf(db_choice) ==
    IF db_choice = "2" THEN "force"
    ELSE IF db_choice # "1" THEN "cancel"
    ELSE "existing"

\* Lines 159-168.
FixDbMode(db_choice) ==
    /\ pc = "fix_db_permissions.mode"
    /\ log' = Append(log, Ask("Select option", db_choice))
    /\ target_pass' = IF ModeOf(db_choice) = "force" THEN DefaultPassword
                      ELSE PyStr(db_pass_of(config))
    /\ sync_config' = (ModeOf(db_choice) = "force")
    /\ pc' = CASE ModeOf(db_choice) = "force" -> "fix_db_permissions.write"
               [] ModeOf(db_choice) = "existing" -> "fix_db_permissions.sql"
               [] OTHER -> "continue"
    /\ UNCHANGED lastRun
    /\ UNCHANGED <<op, printed, anyFailed, ret, probed, all_up, config, diag_output,
                   diag_logs, worldVars>>

\* Line 184: "Escaping for shell".
EscapeForShell(new_config_json) == Replace(new_config_json, DQ, <<BS, DQ>>)

\* What bash -c "echo '<text>' > site_config.json" leaves in the file when the
\* text holds no single quote: between single quotes bash keeps every character,
\* a backslash included, and echo (no -e) prints them as they are and a newline.
EchoSingleQuoted(text) == text \o <<NL>>

\* Lines 180-184: the text the write-back hands to the shell.
WriteBackText(cfg, pass) ==
    EscapeForShell(json_dumps(ObjVal(DictSet(cfg.m, K_db_password, StrVal(pass)))))

\* Lines 178-189: the write-back of the config, in mode 2 only.
FixDbWrite ==
    /\ pc = "fix_db_permissions.write"
    /\ \E exit \in {0, 1} :
         LET r == run_command(Proc(exit, <<>>), FALSE) IN
         /\ log' = Append(log, Cmd("write_site_config", CONTAINER_BACKEND))
         /\ printed' = printed \cup Reported(r)
                \cup {"Updating site_config.json with new password..."}
         /\ anyFailed' = (anyFailed \/ exit # 0)
         /\ configFile' = IF exit = 0
                          THEN EchoSingleQuoted(WriteBackText(config, target_pass))
                          ELSE configFile
    /\ pc' = "fix_db_permissions.sql"
    /\ UNCHANGED lastRun
    /\ UNCHANGED <<op, ret, opVars, containers, dbUsers, staging, backendAssets,
                   frontA, frontB>>

\* The roles after DROP USER IF EXISTS / CREATE USER ... IDENTIFIED BY.
Dropped(users, name) == {u \in users : u.user # name}
Recreated(users, name, pass) == Dropped(users, name) \cup {[user |-> name, pass |-> pass]}

\* Lines 171-176 and 191-202: the statement names db_name three times and
\* target_pass once.  The mysql client may run all of it, none of it (it cannot
\* connect), or stop after the DROP.
FixDbSql ==
    /\ pc = "fix_db_permissions.sql"
    /\ \E did \in {"all", "none", "drop"} :
         LET r == run_command(Proc(IF did = "all" THEN 0 ELSE 1, <<>>), FALSE)
             name == PyStr(db_name_of(config))
         IN  /\ log' = Append(log, CmdText("mysql_reset", CONTAINER_DB,
                                           <<name, target_pass>>))
             /\ printed' = printed \cup Reported(r)
                    \cup {"Permissions updated. Restarting backend..."}
             /\ anyFailed' = (anyFailed \/ did # "all")
             /\ dbUsers' = CASE did = "all" -> Recreated(dbUsers, name, target_pass)
                             [] did = "drop" -> Dropped(dbUsers, name)
                             [] OTHER -> dbUsers
    /\ pc' = "fix_db_permissions.restart"
    /\ UNCHANGED lastRun
    /\ UNCHANGED <<op, ret, opVars, containers, configFile, staging, backendAssets,
                   frontA, frontB>>

\* Lines 203-204.
FixDbRestart ==
    /\ pc = "fix_db_permissions.restart"
    /\ \E exit \in {0, 1} :
         LET r == run_command(Proc(exit, <<>>), FALSE) IN
         /\ log' = Append(log, Cmd("restart", CONTAINER_BACKEND))
         /\ printed' = printed \cup Reported(r) \cup {"[OK] Done."}
         /\ anyFailed' = (anyFailed \/ exit # 0)
    /\ pc' = "continue"
    /\ UNCHANGED lastRun
    /\ UNCHANGED <<op, ret, opVars, worldVars>>

----------------------------------------------------------------------------
(* fix_assets.  A directory is "absent", "incomplete" (it exists and does  *)
(* not hold the full asset tree) or "full".                                *)

\* The commands with both roots wiped and recreated, then both filled, then both
\* given their owner.
AssetPlan_StageByStage ==
    << "bench_build", "resolve_symlinks", "cp_to_host",
       "rm_rf_A", "mkdir_A", "rm_rf_B", "mkdir_B",
       "cp_A", "cp_B", "chown_A", "chown_B",
       "clear_cache" >>

\* The commands of lines 218-269, in the order of the code.
AssetPlan ==
    << "bench_build", "resolve_symlinks", "cp_to_host",
       "rm_rf_A", "mkdir_A", "cp_A", "chown_A",
       "rm_rf_B", "mkdir_B", "cp_B", "chown_B",
       "clear_cache" >>

\* HostCleanup without lines 263-265.
HostCleanup_BeforeExtractionOnly(name, dir) == IF name = "cp_to_host" THEN "absent" ELSE dir

\* os.path.exists / shutil.rmtree on the host: before the extraction (lines
\* 242-244) and before the cache is cleared (lines 263-265).
HostCleanup(name, dir) == IF name \in {"cp_to_host", "clear_cache"} THEN "absent" ELSE dir

\* A command that copies out of the staging directory cannot succeed without it.
CanSucceed(name, dir) == name \in {"cp_A", "cp_B"} => dir # "absent"

\* The frontend root after a command on it.
RootAfter(root, action, dir) ==
    CASE action = "rm_rf" -> "absent"
      [] action = "mkdir" -> IF root = "absent" THEN "incomplete" ELSE root
      [] action = "cp" -> IF dir = "full" \/ root = "full" THEN "full" ELSE "incomplete"
      [] OTHER -> root

ActionOn(name, suffix) ==
    CASE name = "rm_rf_" \o suffix -> "rm_rf"
      [] name = "mkdir_" \o suffix -> "mkdir"
      [] name = "cp_" \o suffix -> "cp"
      [] OTHER -> "none"

\* One command of the plan, with the host-side lines that precede it.  A command
\* that exits non-zero changes nothing, except the extraction, which may leave an
\* incomplete staging directory behind.
FixAssetsStep ==
    /\ pc = "fix_assets"
    /\ Len(log) < Len(AssetPlan)
    /\ LET name == AssetPlan[Len(log) + 1]
           dir == HostCleanup(name, staging)
       IN \E ok \in BOOLEAN, partial \in BOOLEAN :
            LET r == run_command(Proc(IF ok THEN 0 ELSE 1, <<>>), FALSE) IN
            /\ CanSucceed(name, dir) \/ ~ok
            /\ partial => (name = "cp_to_host" /\ ~ok)
            /\ log' = Append(log, Cmd(name, IF Len(log) < 3 \/ name = "clear_cache"
                                            THEN "backend" ELSE "frontend"))
            /\ printed' = printed \cup Reported(r)
                   \cup (IF name = "clear_cache" THEN {"[OK] Assets force-synced."} ELSE {})
            /\ anyFailed' = (anyFailed \/ ~ok)
            /\ staging' = IF name = "cp_to_host"
                          THEN (IF ok THEN "full" ELSE IF partial THEN "incomplete" ELSE dir)
                          ELSE dir
            /\ backendAssets' = IF name = "resolve_symlinks" /\ ok THEN "dir"
                                ELSE backendAssets
            /\ frontA' = IF ok THEN RootAfter(frontA, ActionOn(name, "A"), dir) ELSE frontA
            /\ frontB' = IF ok THEN RootAfter(frontB, ActionOn(name, "B"), dir) ELSE frontB
            /\ pc' = IF name = "clear_cache" THEN "continue" ELSE pc
    /\ UNCHANGED lastRun
    /\ UNCHANGED <<op, ret, opVars, containers, configFile, dbUsers>>

----------------------------------------------------------------------------
(* fix_hrms_install.                                                       *)

\* The steps list with the migration put first.
steps_MigrateFirst ==
    << Cmd("migrate", "backend"), Cmd("purge_pyc", "backend"), Cmd("restart", "backend") >>

\* The steps list of lines 277-284: the command and the service it is run on.
steps ==
    << Cmd("purge_pyc", "backend"), Cmd("migrate", "backend"), Cmd("restart", "backend") >>

\* One iteration of "for msg, cmd in steps", and the last line after the last.
HrmsStep ==
    /\ pc = "fix_hrms_install"
    /\ Len(log) < Len(steps)
    /\ \E exit \in {0, 1} :
         LET r == run_command(Proc(exit, <<>>), FALSE) IN
         /\ log' = Append(log, steps[Len(log) + 1])
         /\ printed' = printed \cup Reported(r)
                \cup (IF Len(log) + 1 = Len(steps) THEN {"[OK] Cleanup done."} ELSE {})
         /\ anyFailed' = (anyFailed \/ exit # 0)
    /\ pc' = IF Len(log) + 1 = Len(steps) THEN "continue" ELSE pc
    /\ UNCHANGED lastRun
    /\ UNCHANGED <<op, ret, opVars, worldVars>>

----------------------------------------------------------------------------
(* The world the wizard is started in.                                     *)

\* Texts the status query (ps --format json <service>) may print.
PsListRunning == <<"[", "{", DQ>> \o T_State \o <<DQ, ":", DQ>> \o T_running \o <<DQ, "}", "]">>
PsRecordRunning == <<"{", DQ>> \o T_State \o <<DQ, ":", DQ>> \o T_running \o <<DQ, "}">>
PsRecordExited ==
    <<"{", DQ>> \o T_State \o <<DQ, ":", DQ, "e", "x", "i", "t", "e", "d", DQ, "}">>
PsListEmpty == <<"[", "]">>
PsRecordNoState == <<"{", "}">>
PsTwoLines == PsRecordRunning \o <<NL>> \o PsRecordRunning
PsListOfNumber == <<"[", "1", "]">>
PsNumber == <<"1">>
PsRecordNullState == <<"{", DQ>> \o T_State \o <<DQ, ":", "n", "u", "l", "l", "}">>

\* The status query of a service: the command fails, prints nothing, or prints
\* one of the texts (followed by a newline).
StatusProcs ==
    { Proc(1, <<>>), Proc(0, <<>>) } \cup
    { Proc(0, t \o <<NL>>) :
        t \in { PsListRunning, PsRecordRunning, PsRecordExited, PsListEmpty,
                PsRecordNoState, PsTwoLines, PsListOfNumber, PsNumber,
                PsRecordNullState } }

SiteDbName == <<"s", "1">>
SitePassword == <<"p", "w">>

Member(k, v) == [k |-> k, v |-> v]

\* Site configs: the two fields alone; with further fields, one of them holding
\* a double quote and a backslash; already holding the default password;
\* without db_password; with an empty db_name.
CfgPlain == ObjVal(<< Member(K_db_name, StrVal(SiteDbName)),
                      Member(K_db_password, StrVal(SitePassword)) >>)
CfgOpaque == ObjVal(<< Member(K_db_name, StrVal(SiteDbName)),
                       Member(K_db_password, StrVal(SitePassword)),
                       Member(<<"k">>, StrVal(<<"a", DQ, "b", BS, "c">>)),
                       Member(<<"n">>, NumVal(<<"1">>)) >>)
CfgDefault == ObjVal(<< Member(K_db_name, StrVal(SiteDbName)),
                        Member(K_db_password, StrVal(DefaultPassword)) >>)
CfgNoPassword == ObjVal(<< Member(K_db_name, StrVal(SiteDbName)) >>)
CfgEmptyName == ObjVal(<< Member(K_db_name, StrVal(<<>>)),
                          Member(K_db_password, StrVal(SitePassword)) >>)

UsableConfigs == {CfgPlain, CfgOpaque, CfgDefault}

\* Texts site_config.json may hold: a config as frappe writes it (json.dumps with
\* indent=1), text that is no JSON, nothing, JSON that is no dict.
ConfigTexts ==
    { json_dumps(c) : c \in UsableConfigs \cup {CfgNoPassword, CfgEmptyName} }
    \cup { <<"<", "h", "t", "m", "l", ">">>, <<>>, <<"[", "]">> }

\* The database's roles: the site's role with the site's password, with another
\* password, with the default password, or no role.
RoleSets ==
    { {[user |-> SiteDbName, pass |-> SitePassword]},
      {[user |-> SiteDbName, pass |-> <<"o", "l", "d">>]},
      {[user |-> SiteDbName, pass |-> DefaultPassword]},
      {} }

ServiceSet == {services[i] : i \in 1..Len(services)}

AllRunning == [s \in ServiceSet |-> Proc(0, PsListRunning \o <<NL>>)]

\* The state at the first menu prompt, the world left open.
AtMenu ==
    /\ pc = "menu"
    /\ op = ""
    /\ log = <<>>
    /\ printed = {}
    /\ anyFailed = FALSE
    /\ ret = "none"
    /\ probed = <<>>
    /\ all_up = TRUE
    /\ config = NoConfig
    /\ target_pass = <<>>
    /\ sync_config = FALSE
    /\ diag_output = None
    /\ diag_logs = None
    /\ lastRun = NoRun

\* A session: the operator may choose anything, any number of times.
Init ==
    /\ AtMenu
    /\ containers \in { AllRunning,
                        [AllRunning EXCEPT !["db"] = Proc(0, PsListEmpty \o <<NL>>)],
                        [AllRunning EXCEPT !["redis-cache"] = Proc(0, PsListOfNumber \o <<NL>>)] }
    /\ configFile \in { json_dumps(CfgOpaque), json_dumps(CfgNoPassword) }
    /\ dbUsers \in { {[user |-> SiteDbName, pass |-> <<"o", "l", "d">>]} }
    /\ staging \in {"absent", "full"}
    /\ backendAssets \in {"symlink"}
    /\ frontA = "full"
    /\ frontB \in {"full", "absent"}

Next ==
    \/ \E choice \in MenuInputs : Menu(choice)
    \/ Continue
    \/ HealthProbe
    \/ HealthVerdict
    \/ DiagnoseProbe
    \/ DiagnoseLogs
    \/ \E answer \in YesNoInputs : FixNow(answer)
    \/ ViewLogs
    \/ FixDbRead
    \/ \E db_choice \in ModeInputs : FixDbMode(db_choice)
    \/ FixDbWrite
    \/ FixDbSql
    \/ FixDbRestart
    \/ FixAssetsStep
    \/ HrmsStep

Spec == Init /\ [][Next]_vars

\* The health check alone: every combination of four outputs (running as a list,
\* running as a record, an empty list, a failed query) over the five services,
\* with any one service producing any of the outputs of StatusProcs.
CoreProcs ==
    { Proc(0, PsListRunning \o <<NL>>), Proc(0, PsRecordRunning \o <<NL>>),
      Proc(0, PsListEmpty \o <<NL>>), Proc(1, <<>>) }

HealthInit ==
    /\ AtMenu
    /\ containers \in { [f EXCEPT ![s] = p] : f \in [ServiceSet -> CoreProcs],
                                              s \in ServiceSet, p \in StatusProcs }
    /\ configFile = json_dumps(CfgPlain)
    /\ dbUsers = {[user |-> SiteDbName, pass |-> SitePassword]}
    /\ staging = "absent"
    /\ backendAssets = "dir"
    /\ frontA = "full"
    /\ frontB = "full"

HealthNext ==
    \/ Menu("1")
    \/ HealthProbe
    \/ HealthVerdict
    \/ Continue

SpecHealth == HealthInit /\ [][HealthNext]_vars

\* fix_db_permissions alone, over every text of site_config.json and every
\* state of the database's roles.
PermInit ==
    /\ AtMenu
    /\ containers = AllRunning
    /\ configFile \in ConfigTexts
    /\ dbUsers \in RoleSets
    /\ staging = "absent"
    /\ backendAssets = "dir"
    /\ frontA = "full"
    /\ frontB = "full"

PermNext ==
    \/ Menu("3")
    \/ FixDbRead
    \/ \E db_choice \in ModeInputs : FixDbMode(db_choice)
    \/ FixDbWrite
    \/ FixDbSql
    \/ FixDbRestart
    \/ Continue

SpecPerm == PermInit /\ [][PermNext]_vars

\* fix_assets alone, over every state of the four directories.
AssetsInit ==
    /\ AtMenu
    /\ containers = AllRunning
    /\ configFile = json_dumps(CfgPlain)
    /\ dbUsers = {[user |-> SiteDbName, pass |-> SitePassword]}
    /\ staging \in {"absent", "incomplete", "full"}
    /\ backendAssets \in {"symlink", "dir"}
    /\ frontA \in {"absent", "incomplete", "full"}
    /\ frontB \in {"absent", "incomplete", "full"}

AssetsNext ==
    \/ Menu("4")
    \/ FixAssetsStep
    \/ Continue

SpecAssets == AssetsInit /\ [][AssetsNext]_vars

\* The password site_config.json stores for the site's role is the password the
\* database has for that role.
Agree ==
    LET d == json_loads(configFile) IN
    /\ d.ok
    /\ d.v.t = "obj"
    /\ db_name_of(d.v).t = "str"
    /\ db_pass_of(d.v).t = "str"
    /\ [user |-> db_name_of(d.v).s, pass |-> db_pass_of(d.v).s] \in dbUsers

\* fix_db_permissions alone, started where the stored password and the role's
\* password agree.
AgreeInit == PermInit /\ Agree

SpecAgree == AgreeInit /\ [][PermNext]_vars

\* Menu choice 2 alone: the diagnosis, the question after the verdict
\* access_denied, and fix_db_permissions when the answer is yes.
DiagInit ==
    /\ AtMenu
    /\ containers = AllRunning
    /\ configFile \in { json_dumps(CfgPlain), json_dumps(CfgNoPassword) }
    /\ dbUsers \in RoleSets
    /\ staging = "absent"
    /\ backendAssets = "dir"
    /\ frontA = "full"
    /\ frontB = "full"

DiagNext ==
    \/ Menu("2")
    \/ DiagnoseProbe
    \/ DiagnoseLogs
    \/ \E answer \in YesNoInputs : FixNow(answer)
    \/ FixDbRead
    \/ \E db_choice \in ModeInputs : FixDbMode(db_choice)
    \/ FixDbWrite
    \/ FixDbSql
    \/ FixDbRestart
    \/ Continue

SpecDiag == DiagInit /\ [][DiagNext]_vars

----------------------------------------------------------------------------
(* The claims.                                                             *)

Asked(i) == log[i].kind = "ask"
Issued(i, names) == log[i].kind = "cmd" /\ log[i].name \in names

\* The commands that destroy data or change a credential, and for each the
\* answers that are an explicit yes to doing it.
DestructiveCommands ==
    {"mysql_reset", "write_site_config", "rm_rf_A", "rm_rf_B", "purge_pyc"}

Consents(name) ==
    CASE name = "mysql_reset" -> {Ask("Select option", "1"), Ask("Select option", "2")}
      [] name = "write_site_config" -> {Ask("Select option", "2")}
      [] name \in {"rm_rf_A", "rm_rf_B"} ->
            {Ask("Do you want to rebuild assets and fix permissions now?", a) :
                a \in {"y", "Y"}}
      [] OTHER -> {}

\* C1 (as claimed): every destructive or credential-changing command is issued
\* only after the operator has answered yes to a confirmation prompt for that
\* action.
C1_ConfirmedBeforeDestructive ==
    \A j \in 1..Len(log) :
        Issued(j, DestructiveCommands) =>
            \E i \in 1..(j - 1) : log[i] \in Consents(log[j].name)

ModeAnswer(i) == Asked(i) /\ log[i].name = "Select option"
ChangingCommands == {"write_site_config", "mysql_reset", "restart"}

\* C2: in fix_db_permissions, an answer other than exactly "1" or "2" ends the
\* function with no config write, no credential reset and no restart issued; no
\* such command is issued before the answer; and the force branch (the config
\* write, sync_config, the default password as target) is taken only on "2".
C2_ModeIsExplicitChoice ==
    /\ \A j \in 1..Len(log) :
          Issued(j, ChangingCommands) =>
              \E i \in 1..(j - 1) : ModeAnswer(i) /\ log[i].arg \in {"1", "2"}
    /\ \A i \in 1..Len(log) :
          ModeAnswer(i) =>
              /\ log[i].arg \notin {"1", "2"} => (pc = "continue" /\ Len(log) = i)
              /\ log[i].arg # "2" =>
                    /\ ~sync_config
                    /\ \A j \in 1..Len(log) : ~Issued(j, {"write_site_config"})
                    /\ target_pass = PyStr(db_pass_of(config))

\* A run that was cancelled by an answer that only looks like "2".
C2_Witness ==
    /\ pc = "continue"
    /\ Len(log) = 2
    /\ log[2] = Ask("Select option", " 2")

\* The run served was mode 2 of fix_db_permissions, and each of its four
\* commands exited zero.
Mode2AllSucceeded ==
    /\ pc = "continue"
    /\ sync_config
    /\ ~anyFailed
    /\ Len(log) = 5

\* The db_password a reader of site_config.json finds, or null.
StoredValue(file, key) ==
    LET d == json_loads(file) IN
    IF d.ok /\ d.v.t = "obj" THEN DictGet(d.v.m, key, NullVal) ELSE NullVal

\* C3 (as claimed): after a mode-2 run whose commands all succeed, re-reading and
\* decoding site_config.json gives a config whose db_password is the default
\* password and whose other fields are those of the original config, unchanged.
C3_WriteBackRoundTrip ==
    Mode2AllSucceeded =>
        LET d == json_loads(configFile) IN
        /\ d.ok
        /\ d.v.t = "obj"
        /\ DictGet(d.v.m, K_db_password, NullVal) = StrVal(DefaultPassword)
        /\ \A i \in 1..Len(config.m) :
              config.m[i].k # K_db_password =>
                  /\ HasKey(d.v.m, config.m[i].k)
                  /\ DictGet(d.v.m, config.m[i].k, NullVal) = config.m[i].v

\* The part of C4 that is about the statement alone: it names the role db_name;
\* in mode 2 its password is the default password and the config write was issued
\* before it; in mode 1 its password is the db_password read from the config.
C4_StatementFields ==
    \A j \in 1..Len(log) :
        Issued(j, {"mysql_reset"}) =>
            /\ log[j].text[1] = PyStr(db_name_of(config))
            /\ sync_config =>
                  /\ log[j].text[2] = DefaultPassword
                  /\ \E i \in 1..(j - 1) : Issued(i, {"write_site_config"})
            /\ ~sync_config => log[j].text[2] = PyStr(db_pass_of(config))

\* C4 (as claimed): the statement targets the role db_name; in mode 2 its password
\* is the default password and is the value stored as db_password in the
\* persisted config, the write having been issued (and, here, having succeeded)
\* before the statement; in mode 1 it is the db_password read from the config.
C4_StatementMatchesPersistedConfig ==
    /\ C4_StatementFields
    /\ \A j \in 1..Len(log) :
          (Issued(j, {"mysql_reset"}) /\ sync_config /\ ~anyFailed) =>
              StoredValue(configFile, K_db_password) = StrVal(log[j].text[2])

\* Texts of site_config.json that give no usable config: a field missing, a field
\* empty, no JSON, nothing, JSON that is no dict.
UnusableTexts ==
    { json_dumps(CfgNoPassword), json_dumps(CfgEmptyName),
      <<"<", "h", "t", "m", "l", ">">>, <<>>, <<"[", "]">> }

\* C5: when the config cannot be read (the cat fails) or is unusable,
\* fix_db_permissions returns to the menu loop having asked nothing and issued
\* nothing but the read: no mode prompt, no config write, no credential reset, no
\* restart, and no exception leaves it.
C5_AbortsOnUnusableConfig ==
    /\ (op = "3" /\ configFile \in UnusableTexts) =>
          /\ pc \in {"fix_db_permissions", "continue"}
          /\ Len(log) <= 1
    /\ (op = "3" /\ Len(log) = 1 /\ anyFailed) => pc = "continue"
    /\ (op = "3" /\ Len(log) = 1 /\ pc = "continue") =>
          /\ log[1] = Cmd("cat_site_config", CONTAINER_BACKEND)
          /\ printed \cap {"Error parsing site config",
                           "Could not parse db_name or db_password from site_config.json"}
                # {}

\* The abort on a config that decodes and lacks db_password.
C5_Witness ==
    /\ op = "3"
    /\ pc = "continue"
    /\ configFile = json_dumps(CfgNoPassword)
    /\ log = <<Cmd("cat_site_config", CONTAINER_BACKEND)>>
    /\ ~anyFailed

\* C6: when fix_assets has returned, the host staging directory asset_sync_temp
\* does not exist, whichever of its commands exited non-zero and whatever the
\* directory was before the run.
C6_StagingRemoved ==
    (op = "4" /\ pc = "continue") => staging = "absent"

\* fix_assets has returned from a run in which some command failed and a
\* frontend root was left without the full assets.
C6_Witness ==
    /\ op = "4"
    /\ pc = "continue"
    /\ anyFailed
    /\ Len(log) = Len(AssetPlan)
    /\ frontA = "incomplete"
    /\ staging = "absent"

CommandNames == [i \in 1..Len(log) |-> log[i].name]

\* C7: fix_hrms_install issues the bytecode purge, the migration and the backend
\* restart, in this order and each once, whatever their exit statuses; a non-zero
\* exit is reported.
C7_ThreeStepsAlways ==
    /\ (op = "5" /\ pc = "continue") =>
          /\ CommandNames = <<"purge_pyc", "migrate", "restart">>
          /\ \A i \in 1..Len(log) : log[i].kind = "cmd"
    /\ (op = "5" /\ pc = "fix_hrms_install") =>
          /\ Len(log) < 3
          /\ CommandNames = SubSeq(<<"purge_pyc", "migrate", "restart">>, 1, Len(log))
    /\ (op = "5" /\ anyFailed) => "Error running command" \in printed

\* fix_hrms_install has returned from a run in which a command failed.
C7_Witness ==
    /\ op = "5"
    /\ pc = "continue"
    /\ anyFailed
    /\ Len(log) = 3

\* C8: check_general_health returns True exactly when each of the five report
\* lines shows the status "running", and it has then probed backend, frontend,
\* db, redis-cache and redis-queue, in this order, each once, whatever the
\* statuses of the earlier ones.
C8_HealthVerdict ==
    /\ (op = "1" /\ pc = "continue") =>
          /\ ret \in {"True", "False"}
          /\ ret = "True" <=>
                \A i \in 1..Len(probed) : IsStr(probed[i].status, T_running)
          /\ [i \in 1..Len(probed) |-> probed[i].service]
                = <<"backend", "frontend", "db", "redis-cache", "redis-queue">>
          /\ log = [i \in 1..5 |-> Cmd("ps", probed[i].service)]
    /\ (op = "1" /\ pc = "check_general_health") =>
          /\ Len(log) = Len(probed)
          /\ ret = "none"

\* The check failed on the first service alone and went on to probe the others.
C8_Witness ==
    /\ op = "1"
    /\ pc = "continue"
    /\ ret = "False"
    /\ ~IsStr(probed[1].status, T_running)
    /\ \A i \in 2..5 : IsStr(probed[i].status, T_running)

ServiceStatus ==
    {StrVal(T_running), StrVal(T_stopped), StrVal(T_not_found), StrVal(T_unknown),
     StrVal(T_parse_error)}

\* C9 (as claimed): for the output of every status query issued, get_docker_status
\* raises nothing and returns running, stopped, not_found, unknown or parse_error.
C9_ProbeTotalIntoServiceStatus ==
    \A i \in 1..Len(log) :
        Issued(i, {"ps"}) =>
            LET got == get_docker_status(run_command(containers[log[i].arg], FALSE).result)
            IN  /\ ~got.raised
                /\ got.status \in ServiceStatus

\* The outputs of the status query, each with the status the claim gives it.
Expected(proc) ==
    CASE proc.exit # 0 \/ proc.out = <<>> -> T_not_found
      [] proc = Proc(0, PsTwoLines \o <<NL>>) -> T_parse_error
      [] proc = Proc(0, PsListEmpty \o <<NL>>) -> T_stopped
      [] proc = Proc(0, PsListRunning \o <<NL>>) -> T_running
      [] proc = Proc(0, PsRecordRunning \o <<NL>>) -> T_running
      [] proc = Proc(0, PsRecordExited \o <<NL>>) -> <<"e", "x", "i", "t", "e", "d">>
      [] proc = Proc(0, PsRecordNoState \o <<NL>>) -> T_unknown
      [] OTHER -> <<>>

\* C10: each report line of the health check shows not_found for a query that
\* failed or printed nothing, parse_error for output that does not decode,
\* stopped for an empty list, the State of the first record of a list, the State
\* of a single record (unknown when the record has none); and when the check has
\* returned, it returned True if all five queries printed [{State: running}], and
\* False, with stopped shown for the service, if a query printed [].
C10_ProbeNormalises ==
    /\ \A i \in 1..Len(probed) :
          LET proc == containers[probed[i].service] IN
          Expected(proc) # <<>> => probed[i].status = StrVal(Expected(proc))
    /\ (op = "1" /\ pc = "continue") =>
          /\ (\A s \in ServiceSet : containers[s] = Proc(0, PsListRunning \o <<NL>>))
                => (ret = "True" /\ \A i \in 1..5 : probed[i].status = StrVal(T_running))
          /\ \A i \in 1..5 :
                containers[services[i]] = Proc(0, PsListEmpty \o <<NL>>)
                    => (ret = "False" /\ probed[i].status = StrVal(T_stopped))

\* The check has returned False with db, the one service whose query printed [],
\* shown as stopped.
C10_Witness ==
    /\ op = "1"
    /\ pc = "continue"
    /\ ret = "False"
    /\ containers = [AllRunning EXCEPT !["db"] = Proc(0, PsListEmpty \o <<NL>>)]
    /\ probed[3] = [service |-> "db", status |-> StrVal(T_stopped)]

HasPhrase(result, phrase) == ~result.none /\ Contains(result.text, phrase)

\* The log tail has been fetched by the diagnosis being served.
LogsFetched == op = "2" /\ Len(log) >= 2 /\ log[2].name = "logs_tail_20"

\* C11: the verdict of the log classification is access_denied when the fetched
\* log tail holds the access-denied phrase, whether or not it also holds the
\* connection-refused phrase; conn_refused when it holds the connection-refused
\* phrase alone; unknown_db_error when it holds neither or nothing was fetched.
C11_FirstMatchOrdered ==
    LogsFetched =>
        /\ HasPhrase(diag_logs, P_AccessDenied) => ret = "access_denied"
        /\ (HasPhrase(diag_logs, P_CantConnect) /\ ~HasPhrase(diag_logs, P_AccessDenied))
              => ret = "conn_refused"
        /\ (~HasPhrase(diag_logs, P_CantConnect) /\ ~HasPhrase(diag_logs, P_AccessDenied))
              => ret = "unknown_db_error"

\* The log tail held the connection-refused phrase first and the access-denied
\* phrase after it, and the verdict was access_denied.
C11_Witness ==
    /\ LogsFetched
    /\ diag_logs = Some(P_CantConnect \o <<NL>> \o P_AccessDenied)
    /\ ret = "access_denied"

\* C12: the diagnosis issues the connectivity probe first and once; when the
\* probe's output holds the marker the verdict is connected (True) and the log
\* tail is never fetched; the log tail is fetched at most once, only after a
\* probe whose output lacks the marker, and only then is there a classification.
C12_ProbeFirstLogsOnlyOnFailure ==
    /\ (op = "2" /\ pc = "diagnose_db_access") => log = <<>>
    /\ (op = "2" /\ Len(log) >= 1) =>
          /\ log[1] = Cmd("connect_probe", CONTAINER_BACKEND)
          /\ \A i \in 2..Len(log) : ~Issued(i, {"connect_probe"})
          /\ HasPhrase(diag_output, T_Connected) =>
                /\ ret = "True"
                /\ pc = "continue"
                /\ Len(log) = 1
          /\ \A i \in 1..Len(log) :
                Issued(i, {"logs_tail_20"}) =>
                    /\ i = 2
                    /\ ~HasPhrase(diag_output, T_Connected)
          /\ ret \in {"access_denied", "conn_refused", "unknown_db_error"} => LogsFetched
          /\ ret = "none" => pc = "diagnose_db_access.logs"

\* The probe printed a warning line and then the marker: connected, no log fetch.
C12_Witness ==
    /\ op = "2"
    /\ pc = "continue"
    /\ diag_output = Some(<<"w", NL>> \o T_Connected)
    /\ ret = "True"
    /\ Len(log) = 1

\* C13 (as claimed): no non-zero exit raises; where failure is not tolerated the
\* failed command is reported and gives None; where it is tolerated (the
\* connectivity probe) a failed command gives the caller an empty or None result,
\* never the text a successful command would have given.
C13_FailureNeverLooksLikeSuccess ==
    /\ pc # "crashed"
    /\ (op = "2" /\ Len(log) = 1 /\ anyFailed) => Falsy(diag_output)
    /\ (op = "2" /\ Len(log) = 2 /\ anyFailed /\ ~Falsy(diag_output)) =>
          /\ diag_logs.none
          /\ "Error running command" \in printed
    /\ (LogsFetched /\ diag_logs.none) => "Error running command" \in printed

\* The process has ended: by sys.exit(0) at choice 0, or by an exception that
\* left menu().
Ended == pc \in {"exited", "crashed"}

\* C14 (as claimed): the process ends only because the operator chose 0; no
\* operation 1 to 6 ends it, whatever it returned and whichever of its commands,
\* probes or decodings failed, so that the session can always go on to the menu
\* prompt.
C14_EndsOnlyOnChoiceZero ==
    Ended => (pc = "exited" /\ op = "0")

\* The part of C14 that the code keeps: the process ends otherwise than by choice
\* 0 only inside the health check, on a status query whose output makes
\* get_docker_status or the report line raise; no failed command, no verdict and
\* no undecodable config ends it.
C14_EndsOnlyOnRaisingProbe ==
    /\ pc = "exited" => op = "0"
    /\ pc = "crashed" =>
          /\ op = "1"
          /\ LET got == get_docker_status(
                             run_command(containers[log[Len(log)].arg], FALSE).result)
             IN  got.raised \/ ~Formattable(got.status)

\* The commands of fix_assets that act on a frontend root.
RootCommands ==
    {"rm_rf_A", "mkdir_A", "cp_A", "chown_A", "rm_rf_B", "mkdir_B", "cp_B", "chown_B"}

\* fix_assets is between its extraction and its cache clear, and the extraction
\* did not give a full staging directory.
ExtractionFailed ==
    /\ op = "4"
    /\ Len(log) >= 3
    /\ Len(log) < Len(AssetPlan)
    /\ staging # "full"

\* C15 (as claimed): when the extraction of the backend assets to the staging
\* directory has failed, fix_assets issues none of the commands that act on a
\* frontend root: no root is removed and recreated empty.
C15_NoWipeAfterFailedExtraction ==
    ExtractionFailed => \A j \in 1..Len(log) : ~Issued(j, RootCommands)

\* The stage of the plan a command belongs to.
StageOf(name) ==
    CASE name = "bench_build" -> 1
      [] name = "resolve_symlinks" -> 2
      [] name = "cp_to_host" -> 3
      [] name \in {"rm_rf_A", "mkdir_A", "rm_rf_B", "mkdir_B"} -> 4
      [] name \in {"cp_A", "cp_B"} -> 5
      [] name \in {"chown_A", "chown_B"} -> 6
      [] name = "clear_cache" -> 7

\* C17 (as claimed): fix_assets issues no command of a later stage before a
\* command of an earlier stage, the stages being rebuild, symlink normalisation,
\* extraction, wipe-and-recreate of both roots, copy into both roots, ownership
\* of both roots, cache clear.
C17_SevenStageOrder ==
    op = "4" =>
        \A i, j \in 1..Len(log) :
            i < j => StageOf(log[i].name) <= StageOf(log[j].name)

\* The commands that act on one root, in the order issued.
RECURSIVE OnRoot(_, _)
OnRoot(names, suffix) ==
    IF names = <<>> THEN <<>>
    ELSE IF ActionOn(Head(names), suffix) # "none" \/ Head(names) = "chown_" \o suffix
         THEN <<Head(names)>> \o OnRoot(Tail(names), suffix)
         ELSE OnRoot(Tail(names), suffix)

\* C17 (amended): fix_assets issues, whichever commands fail: the rebuild, the
\* symlink normalisation, the extraction; then for the root sites/assets the
\* wipe, the recreation, the copy and the ownership fix; then the same four for
\* the root /usr/share/nginx/html/assets; then, the staging directory having
\* been removed, the cache clear.  For each root taken alone, and for the
\* commands on the backend, no command of a later stage precedes a command of
\* an earlier stage.
C17_RootByRootOrder ==
    op = "4" =>
        /\ CommandNames =
              SubSeq(<< "bench_build", "resolve_symlinks", "cp_to_host",
                        "rm_rf_A", "mkdir_A", "cp_A", "chown_A",
                        "rm_rf_B", "mkdir_B", "cp_B", "chown_B",
                        "clear_cache" >>, 1, Len(log))
        /\ \A suffix \in {"A", "B"} :
              LET own == OnRoot(CommandNames, suffix) IN
              \A i, j \in 1..Len(own) : i < j => StageOf(own[i]) <= StageOf(own[j])
        /\ \A i, j \in 1..Len(log) :
              (i < j /\ log[i].name \notin RootCommands /\ log[j].name \notin RootCommands)
                  => StageOf(log[i].name) <= StageOf(log[j].name)
        /\ (Len(log) > 0 /\ Issued(Len(log), {"clear_cache"}))
              => (staging = "absent" /\ pc = "continue")
        /\ pc = "continue" => Len(log) = 12

\* fix_assets has returned from a run in which every command succeeded.
C17_Witness ==
    /\ op = "4"
    /\ pc = "continue"
    /\ ~anyFailed
    /\ Len(log) = 12
    /\ frontA = "full"
    /\ frontB = "full"

\* C16 (as claimed): when the password stored in site_config.json and the
\* password of the database role agree before fix_db_permissions is invoked,
\* they agree when it returns, in mode 1, in mode 2 and on cancel, whichever of
\* the write-back, the statement and the restart exit non-zero.
C16_AgreementPreserved ==
    (op = "3" /\ pc = "continue") => Agree

\* The final success reports of the three fixes (lines 204, 271, 290).
SuccessReports == {"[OK] Done.", "[OK] Assets force-synced.", "[OK] Cleanup done."}

\* C18 (as claimed): a run of fix_db_permissions, fix_assets or fix_hrms_install
\* in which a command exited non-zero does not end with the final success
\* report; the report is printed only when every command of the run succeeded.
C18_SuccessReportOnlyOnSuccess ==
    (op \in {"3", "4", "5"} /\ anyFailed) => printed \cap SuccessReports = {}

\* The answer last given to "Select option: ", or none.
LastModeAnswer ==
    IF \E i \in 1..Len(log) : ModeAnswer(i)
    THEN log[CHOOSE i \in 1..Len(log) :
                 ModeAnswer(i) /\ \A j \in (i + 1)..Len(log) : ~ModeAnswer(j)].arg
    ELSE "none"

ReadOnlyQueries == {"ps", "connect_probe", "logs_tail_20"}

\* The config is written in this step only by the write-back of
\* fix_db_permissions after the answer "2".
WrittenOnlyInMode2 ==
    configFile' # configFile =>
        /\ pc = "fix_db_permissions.write"
        /\ LastModeAnswer = "2"
        /\ log' = Append(log, Cmd("write_site_config", CONTAINER_BACKEND))

\* The health check and the diagnosis (the commands of menu choice 2 before any
\* question is asked) have issued only the status query, the connectivity probe
\* and the log tail.
OnlyReadOnlyQueries ==
    /\ op = "1" => \A i \in 1..Len(log) : Issued(i, ReadOnlyQueries)
    /\ op = "2" =>
          \A i \in 1..Len(log) :
              (\A j \in 1..i : ~Asked(j)) => Issued(i, ReadOnlyQueries)

\* C19: across any sequence of menu operations no step changes site_config.json
\* but the write-back of fix_db_permissions in mode 2; the health check, the
\* diagnosis, the log view, fix_assets, fix_hrms_install and fix_db_permissions
\* in mode 1, cancelled or aborted leave it as it is; and the health check and
\* the diagnosis issue only read-only queries.
C19_ConfigWrittenOnlyInMode2 ==
    /\ [][WrittenOnlyInMode2]_vars
    /\ []OnlyReadOnlyQueries

\* A successful mode-2 write-back has changed the stored config.
C19_Witness ==
    /\ op = "3"
    /\ LastModeAnswer = "2"
    /\ Len(log) = 3
    /\ ~anyFailed
    /\ configFile = EchoSingleQuoted(WriteBackText(config, DefaultPassword))
    /\ configFile # json_dumps(config)

\* The fix being served has returned, no command failing, and the operation
\* served before it was the same fix, run to its end with no command failing.
SecondRun ==
    /\ lastRun # NoRun
    /\ op = lastRun.op
    /\ pc = "continue"
    /\ ~anyFailed

\* What C20 says of a second run: it did not abort; in the same mode as the
\* first, it leaves the world as the first left it; and fix_assets leaves the
\* backend assets a real directory, both roots populated and no staging.
RerunSafe ==
    /\ op = "3" =>
          /\ LastModeAnswer # "none"
          /\ LastModeAnswer = lastRun.mode => World = lastRun.world
    /\ op \in {"4", "5"} => World = lastRun.world
    /\ op = "4" =>
          /\ backendAssets = "dir"
          /\ frontA = "full"
          /\ frontB = "full"
          /\ staging = "absent"

\* C20 (as claimed): when all commands succeed, a second run in succession of
\* fix_db_permissions (in the same mode), of fix_assets or of fix_hrms_install
\* does not abort and leaves the final state the first run left.
C20_RerunLeavesSameState ==
    SecondRun => RerunSafe

\* The part of C20 that the code keeps: every second run but the one that
\* follows fix_db_permissions in mode 2.
C20_RerunSafeButAfterMode2 ==
    (SecondRun /\ ~(op = "3" /\ lastRun.mode = "2")) => RerunSafe

====
